---- MODULE Spec2Model ----
(***************************************************************************)
(* Model of the turn planning engine of indigo-algo/algo_strategy.py:      *)
(* AlgoStrategy.on_turn (with funnel_strategy and every builder it calls), *)
(* AlgoStrategy.on_action_frame and least_damage_spawn_location.           *)
(* The engine client (gamelib.GameState) is outside algo_strategy.py; its  *)
(* attempt_spawn / get_attackers / find_path_to_edge are modelled from     *)
(* their interface description.                                            *)
(***************************************************************************)
EXTENDS Integers, Sequences, FiniteSets, TLC

\* ------------------------------------------------------------------------
\* Bounds of the model
\* ------------------------------------------------------------------------
\* last turn number the engine sends
MaxTurn == 4
\* longest breach log explored
MaxLog == 2
\* most breach events in one action frame
MaxBreaches == 2

\* ------------------------------------------------------------------------
\* Configuration (on_game_start)
\* ------------------------------------------------------------------------
FILTER == "FF"
ENCRYPTOR == "EF"
DESTRUCTOR == "DF"
PING == "PI"
EMP == "EI"
SCRAMBLER == "SI"

\* type_cost of a unit, in its resource (cores for stationary, bits for mobile)
EncryptorCost == 4
DestructorCost == 3
PingCost == 1
ScramblerCost == 1
\* GameUnit(DESTRUCTOR, config).damage
DestructorDamage == 16
\* squared attack range of an enemy DESTRUCTOR (range 3.5: dx^2 + dy^2 <= 12.25)
DestructorRangeSq == 12

ARENA_SIZE == 28
HALF_ARENA == 14

is_stationary(unit) == unit \in {FILTER, ENCRYPTOR, DESTRUCTOR}

type_cost(unit) ==
    CASE unit = ENCRYPTOR -> EncryptorCost
      [] unit = DESTRUCTOR -> DestructorCost
      [] unit = PING -> PingCost
      [] unit = SCRAMBLER -> ScramblerCost

\* ------------------------------------------------------------------------
\* Board geometry (gamelib.GameMap)
\* ------------------------------------------------------------------------
in_arena_bounds(loc) ==
    LET x == loc[1]
        y == loc[2]
    IN  /\ y >= 0 /\ y < ARENA_SIZE
        /\ IF y < HALF_ARENA
              THEN x >= HALF_ARENA - 1 - y /\ x <= HALF_ARENA + y
              ELSE x >= y - HALF_ARENA /\ x <= ARENA_SIZE + HALF_ARENA - 1 - y

\* the defender's two scoring edges (BOTTOM_LEFT, BOTTOM_RIGHT)
on_own_edge(loc) ==
    /\ loc[2] >= 0 /\ loc[2] < HALF_ARENA
    /\ \/ loc[1] + loc[2] = HALF_ARENA - 1
       \/ loc[1] - loc[2] = HALF_ARENA

\* ------------------------------------------------------------------------
\* The planned game state of a turn (gamelib.GameState):
\*   turn_number, cores, bits : the turn record's counters
\*   units   : own stationary units, cell |-> unit type
\*   mobile  : cells holding own mobile units spawned this turn
\*   enemy   : cells holding an enemy DESTRUCTOR
\*   paths   : find_path_to_edge of the two candidate entries
\* ------------------------------------------------------------------------
contains_stationary_unit(gs, loc) ==
    \/ loc \in DOMAIN gs.units
    \/ loc \in gs.enemy

number_affordable(gs, unit) ==
    IF is_stationary(unit) THEN gs.cores \div type_cost(unit)
                           ELSE gs.bits \div type_cost(unit)

\* can_spawn but for the price: in the arena, in our half, not blocked,
\* and on our edge for a mobile unit
can_place(gs, unit, loc) ==
    /\ in_arena_bounds(loc)
    /\ loc[2] < HALF_ARENA
    /\ ~contains_stationary_unit(gs, loc)
    /\ ~(is_stationary(unit) /\ loc \in gs.mobile)
    /\ (is_stationary(unit) \/ on_own_edge(loc))

can_spawn(gs, unit, loc) ==
    can_place(gs, unit, loc) /\ number_affordable(gs, unit) >= 1

Min(a, b) == IF a <= b THEN a ELSE b

\* The rounds of "for location in locations" that spawn if the pool lasts:
\* can_spawn holds but for the price.  A stationary unit blocks its cell, so
\* a later occurrence of the same cell in the batch spawns nothing.
open_rounds(gs, unit, locations) ==
    {i \in 1..Len(locations) :
        /\ can_place(gs, unit, locations[i])
        /\ is_stationary(unit) =>
              \A j \in 1..(i - 1) : locations[j] # locations[i]}

\* The rounds that do spawn: every spawn costs type_cost, so the open rounds
\* are served in order, per units each, until afford units are paid for.
served_rounds(open, per, afford) ==
    IF per * Cardinality(open) <= afford
       THEN open
       ELSE {i \in open : per * Cardinality({j \in open : j < i}) < afford}

\* the state and the return value of attempt_spawn once the rounds in hit
\* have spawned, spawned units in all
spawn_result(gs, unit, locations, hit, spawned) ==
    [gs |-> IF is_stationary(unit)
               THEN [gs EXCEPT
                       !.cores = @ - spawned * type_cost(unit),
                       !.units = [l \in DOMAIN @ \cup {locations[i] : i \in hit}
                                   |-> IF l \in DOMAIN @ THEN @[l] ELSE unit]]
               ELSE [gs EXCEPT
                       !.bits = @ - spawned * type_cost(unit),
                       !.mobile = @ \cup {locations[i] : i \in hit}],
     spawned |-> spawned,
     built   |-> {locations[i] : i \in hit}]

spawn_rounds(gs, unit, locations, per, afford, open) ==
    spawn_result(gs, unit, locations, served_rounds(open, per, afford),
                 Min(afford, per * Cardinality(open)))

\* attempt_spawn(unit_type, locations, num): best effort over the batch; a
\* location that cannot be spawned on is skipped and the batch goes on.
\* Result: the planned state after the call, the count returned, and the
\* cells spawned on.
attempt_spawn(gs, unit, locations, num) ==
    spawn_rounds(gs, unit, locations,
                 IF is_stationary(unit) THEN Min(num, 1) ELSE num,
                 number_affordable(gs, unit),
                 open_rounds(gs, unit, locations))

\* units able to damage a unit of ours at loc: enemy DESTRUCTORs in range
get_attackers(gs, loc) ==
    {e \in gs.enemy :
        (e[1] - loc[1]) * (e[1] - loc[1]) + (e[2] - loc[2]) * (e[2] - loc[2])
            <= DestructorRangeSq}

find_path_to_edge(gs, loc) == gs.paths[loc]

\* ------------------------------------------------------------------------
\* AlgoStrategy: the placement patterns
\* ------------------------------------------------------------------------
\* the columns left open in every defensive row
GapColumns == {3, 6, 10, 12, 15, 17, 21, 24}

\* [lo, lo+1, .., hi] without the gap columns, in order
OpenColumns(lo, hi) ==
    SelectSeq([k \in 1..(hi - lo + 1) |-> lo + k - 1],
              LAMBDA i : i \notin GapColumns)

\* a list given by its elements, as the sequence of them
AsList(f) == SubSeq(f, 1, Len(f))

\* destructor_locations.extend([[i, y], [27-i, y]]) for every i of xs
MirroredRow(xs, y) ==
    AsList([k \in 1..(2 * Len(xs)) |->
              IF k % 2 = 1 THEN <<xs[(k + 1) \div 2], y>>
                           ELSE <<27 - xs[k \div 2], y>>])

\* a variant of base_locations that forgets the gap columns
base_locations_no_gaps == AsList([k \in 1..28 |-> <<k - 1, 13>>])

\* build_defenses: [[x, 13] for x in range(28) if x not in gaps]
base_locations ==
    LET xs == OpenColumns(0, 27)
    IN  AsList([k \in 1..Len(xs) |-> <<xs[k], 13>>])

\* build_additional_defenses (the second definition of the class, which is
\* the one Python binds): i in range(1, 13), row 12
additional_locations == MirroredRow(OpenColumns(1, 12), 12)

\* build_defenses3: i in range(2, 26), row 11
defenses3_locations == MirroredRow(OpenColumns(2, 25), 11)

\* build_better_tunnel
tunnel_locations ==
    << <<5, 11>>, <<6, 10>>, <<7, 9>>, <<8, 8>>, <<9, 7>>, <<10, 6>>,
       <<11, 5>>, <<12, 4>>, <<14, 3>>, <<15, 4>>, <<16, 5>>, <<17, 6>>,
       <<18, 7>>, <<19, 8>> >>

\* build_right_funnel
right_funnel_locations ==
    << <<3, 11>>, <<4, 11>>, <<5, 10>>, <<6, 9>>, <<7, 8>>, <<8, 7>>,
       <<9, 6>>, <<10, 5>>, <<11, 4>>, <<12, 3>>, <<13, 2>>, <<14, 2>>,
       <<15, 3>>, <<16, 4>>, <<17, 5>>, <<18, 6>>, <<19, 7>>, <<20, 8>> >>

\* build_left_funnel
left_funnel_locations ==
    << <<24, 11>>, <<23, 11>>, <<22, 10>>, <<21, 9>>, <<20, 8>>, <<19, 7>>,
       <<18, 6>>, <<17, 5>>, <<16, 4>>, <<15, 3>>, <<14, 2>>, <<12, 3>>,
       <<11, 4>>, <<10, 5>>, <<9, 6>>, <<8, 7>>, <<7, 8>> >>

\* the two candidate entry locations of the decision turn
ping_spawn_location_options == << <<3, 10>>, <<24, 10>> >>

\* stall_with_scramblers: deploy_locations
deploy_locations == << <<9, 4>>, <<18, 4>> >>

\* the turn on which the funnel side is chosen
DecisionTurn == 3
\* least bits for the offensive spawn, and the count it requests
SwarmThreshold == 10
SwarmCount == 1000
\* vertical offset of a reinforcement from the logged breach
ReactiveOffset == 3

\* ------------------------------------------------------------------------
\* One call of game_state.attempt_spawn made by the planner: the planned
\* state moves on and the call is logged with what it returned.
\* ------------------------------------------------------------------------
Logged(ctx, fn, unit, locations, num, r) ==
    [gs    |-> r.gs,
     calls |-> Append(ctx.calls,
                 [fn |-> fn, unit |-> unit, locations |-> locations,
                  num |-> num, spawned |-> r.spawned, built |-> r.built,
                  cores |-> r.gs.cores, bits |-> r.gs.bits])]

Call(ctx, fn, unit, locations, num) ==
    Logged(ctx, fn, unit, locations, num,
           attempt_spawn(ctx.gs, unit, locations, num))

build_defenses(ctx) ==
    Call(ctx, "build_defenses", DESTRUCTOR, base_locations, 1)

\* a variant of build_location that builds on the breached cell itself
build_location_at_breach(location) == <<location[1], location[2]>>

\* a variant of build_location that builds "one space above"
build_location_one_above(location) == <<location[1], location[2] + 1>>

\* the cell a logged breach is reinforced at
build_location(location) == <<location[1], location[2] + ReactiveOffset>>

RECURSIVE build_reactive_defense(_, _)
build_reactive_defense(ctx, log) ==
    IF log = << >>
       THEN ctx
       ELSE build_reactive_defense(
                Call(ctx, "build_reactive_defense", DESTRUCTOR,
                     <<build_location(Head(log))>>, 1),
                Tail(log))

build_additional_defenses(ctx) ==
    Call(ctx, "build_additional_defenses", DESTRUCTOR, additional_locations, 1)

build_better_tunnel(ctx) ==
    Call(ctx, "build_better_tunnel", ENCRYPTOR, tunnel_locations, 1)

build_defenses3(ctx) ==
    Call(ctx, "build_defenses3", DESTRUCTOR, defenses3_locations, 1)

build_right_funnel(ctx) ==
    Call(ctx, "build_right_funnel", ENCRYPTOR, right_funnel_locations, 1)

build_left_funnel(ctx) ==
    Call(ctx, "build_left_funnel", ENCRYPTOR, left_funnel_locations, 1)

\* a variant of quarter_of without the + 1
quarter_of_floor(gs) == gs.bits \div 4

\* quarter = game_state.get_resource(BITS) // 4 + 1, read once before the loop
quarter_of(gs) == gs.bits \div 4 + 1

\* the while loop of stall_with_scramblers; rnd[k] is the k-th value of
\* random.randint(0, len(deploy_locations) - 1)
RECURSIVE stall_loop(_, _, _, _)
stall_loop(ctx, count, quarter, rnd) ==
    IF ~(count < quarter /\ Len(deploy_locations) > 0)
       THEN ctx
       ELSE stall_loop(
                Call(ctx, "stall_with_scramblers", SCRAMBLER,
                     <<deploy_locations[rnd[count + 1] + 1]>>, 1),
                count + 1, quarter, rnd)

stall_with_scramblers(ctx, rnd) == stall_loop(ctx, 0, quarter_of(ctx.gs), rnd)

\* ------------------------------------------------------------------------
\* least_damage_spawn_location
\* ------------------------------------------------------------------------
\* damage += len(get_attackers(path_location, 0)) * DESTRUCTOR damage,
\* over the locations lo..hi of the path (the sum is split in halves to
\* keep the evaluation shallow); 0 for an empty path
RECURSIVE damage_between(_, _, _, _)
damage_between(gs, path, lo, hi) ==
    IF lo > hi THEN 0
    ELSE IF lo = hi
       THEN Cardinality(get_attackers(gs, path[lo])) * DestructorDamage
    ELSE LET mid == (lo + hi) \div 2
         IN  damage_between(gs, path, lo, mid)
               + damage_between(gs, path, mid + 1, hi)

\* a variant of path_damage that subtracts where it should add
path_damage_minus(gs, path) == 0 - damage_between(gs, path, 1, Len(path))

path_damage(gs, path) == damage_between(gs, path, 1, Len(path))

\* the list "damages", one estimate per option, in input order
damages_of(gs, location_options) ==
    [i \in 1..Len(location_options) |->
        path_damage(gs, find_path_to_edge(gs, location_options[i]))]

\* min(damages)
min_of(ds) == CHOOSE d \in {ds[i] : i \in 1..Len(ds)} :
                  \A j \in 1..Len(ds) : d <= ds[j]

\* a variant of index_of that returns the last position holding v
index_of_last(ds, v) == CHOOSE i \in 1..Len(ds) :
                           /\ ds[i] = v
                           /\ \A j \in (i + 1)..Len(ds) : ds[j] # v

\* damages.index(v): the first position holding v
index_of(ds, v) == CHOOSE i \in 1..Len(ds) :
                      /\ ds[i] = v
                      /\ \A j \in 1..(i - 1) : ds[j] # v

\* location_options[damages.index(min(damages))]
least_of(location_options, ds) == location_options[index_of(ds, min_of(ds))]

least_damage_spawn_location(gs, location_options) ==
    least_of(location_options, damages_of(gs, location_options))

\* ------------------------------------------------------------------------
\* funnel_strategy
\* ------------------------------------------------------------------------
\* the test that decides the side on the decision turn
commits_left(best) == best = <<2, 11>>

\* turn 3: choose the entry, build the funnel of the chosen side, commit
commit_to(self, ctx, best) ==
    IF commits_left(best)
       THEN [ctx  |-> build_left_funnel(ctx),
             self |-> [self EXCEPT !.best_location = best,
                                   !.funnel_left = TRUE]]
       ELSE [ctx  |-> build_right_funnel(ctx),
             self |-> [self EXCEPT !.best_location = best,
                                   !.funnel_left = FALSE]]

commit_funnel(self, ctx) ==
    commit_to(self, ctx,
              least_damage_spawn_location(ctx.gs, ping_spawn_location_options))

\* a variant of keep_funnel with the two branches exchanged
keep_funnel_swapped(ctx, funnel_left) ==
    IF funnel_left THEN build_right_funnel(ctx) ELSE build_left_funnel(ctx)

\* turns after 3: keep committing to the funnel
keep_funnel(ctx, funnel_left) ==
    IF funnel_left THEN build_left_funnel(ctx) ELSE build_right_funnel(ctx)

\* a variant of swarm that wants more than the threshold
swarm_strict(ctx, best_location) ==
    IF ctx.gs.bits > SwarmThreshold
       THEN Call(ctx, "swarm", PING, <<best_location>>, SwarmCount)
       ELSE ctx

\* swarm down the funnel if we have enough bits
swarm(ctx, best_location) ==
    IF ctx.gs.bits >= SwarmThreshold
       THEN Call(ctx, "swarm", PING, <<best_location>>, SwarmCount)
       ELSE ctx

\* self = [scored_on_locations, funnel_left, best_location]

\* a variant of basic_defenses that reinforces before the base pass
basic_defenses_reactive_first(self, gs) ==
    build_defenses(build_reactive_defense([gs |-> gs, calls |-> << >>],
                                          self.scored_on_locations))

\* the head of funnel_strategy: basic defenses, then reactive defenses
basic_defenses(self, gs) ==
    build_reactive_defense(build_defenses([gs |-> gs, calls |-> << >>]),
                           self.scored_on_locations)

\* a variant of funnel_branch whose fortify-and-swarm part is not an elif:
\* it also runs in the turn of the commitment
funnel_branch_fortifying(self, c2, rnd) ==
    IF c2.gs.turn_number < DecisionTurn
       THEN [ctx |-> stall_with_scramblers(c2, rnd), self |-> self]
    ELSE LET r == IF c2.gs.turn_number = DecisionTurn
                     THEN commit_funnel(self, c2)
                     ELSE [ctx  |-> keep_funnel(c2, self.funnel_left),
                           self |-> self]
         IN  [ctx  |-> swarm(build_defenses3(
                               build_better_tunnel(
                                 build_additional_defenses(r.ctx))),
                             r.self.best_location),
              self |-> r.self]

\* the rest of funnel_strategy: stall before the decision turn, commit on
\* it, keep the funnel, fortify and swarm after it.  The result is the
\* planned state with the calls made, and the new self.
funnel_branch(self, c2, rnd) ==
    IF c2.gs.turn_number < DecisionTurn
       THEN [ctx |-> stall_with_scramblers(c2, rnd), self |-> self]
    ELSE IF c2.gs.turn_number = DecisionTurn
       THEN commit_funnel(self, c2)
    ELSE [ctx  |-> swarm(build_defenses3(
                           build_better_tunnel(
                             build_additional_defenses(
                               keep_funnel(c2, self.funnel_left)))),
                         self.best_location),
          self |-> self]

funnel_strategy(self, gs, rnd) ==
    funnel_branch(self, basic_defenses(self, gs), rnd)

\* ------------------------------------------------------------------------
\* on_action_frame
\* ------------------------------------------------------------------------
\* a variant of unit_owner_self that takes the owner field for the
\* player_index of the starter kit (0 for ourselves)
unit_owner_self_index(breach) == breach.owner = 0

\* breach[4] == 1: the breaching unit is our own
unit_owner_self(breach) == breach.owner = 1

\* a variant of logged_location that logs the reinforcement cell
logged_location_shifted(breach) == build_location(breach.location)

\* what is appended for a breach of the opponent
logged_location(breach) == breach.location

\* the loop over events["breach"]; log is <<locations, owners>>, the owners
\* being the owner field of the event each entry was appended for
RECURSIVE record_breaches(_, _)
record_breaches(log, breaches) ==
    IF breaches = << >>
       THEN log
       ELSE LET breach == Head(breaches)
            IN  record_breaches(
                    IF ~unit_owner_self(breach)
                       THEN [locations |-> Append(log.locations,
                                                  logged_location(breach)),
                             owners    |-> Append(log.owners, breach.owner)]
                       ELSE log,
                    Tail(breaches))

\* a variant of on_action_frame that turns the funnel when a breach is logged
on_action_frame_turning(self, log) ==
    [self EXCEPT !.scored_on_locations = log.locations,
                 !.funnel_left = IF log.locations # self.scored_on_locations
                                    THEN ~@ ELSE @]

\* on_action_frame as a whole: of the attributes of self only the log is
\* written; log is what record_breaches returns for the frame
on_action_frame(self, log) ==
    [self EXCEPT !.scored_on_locations = log.locations]

\* ------------------------------------------------------------------------
\* What the engine can send
\* ------------------------------------------------------------------------
\* cores and bits of a turn record
CoresChoices == {0, 300}
BitsChoices == {3, 9, 10}
\* cells where the opponent may hold a DESTRUCTOR
EnemySites == {<<6, 16>>, <<21, 16>>, <<13, 20>>, <<14, 25>>}
\* breach locations and owner fields of the action frames
BreachLocations == {<<10, 2>>, <<0, 13>>}
BreachOwners == {1, 2}

\* the route of a unit entering at [3, 10] (to the top-right edge) and at
\* [24, 10] (to the top-left edge) on an open board
PathFromLeft ==
    AsList([k \in 1..29 |-> <<3 + (k - 1) \div 2, 10 + k \div 2>>])
PathFromRight ==
    AsList([k \in 1..29 |-> <<24 - (k - 1) \div 2, 10 + k \div 2>>])
Candidates == {<<3, 10>>, <<24, 10>>}
NoPaths == [l \in Candidates |-> << >>]
OpenPaths == [l \in Candidates |->
                IF l = <<3, 10>> THEN PathFromLeft ELSE PathFromRight]
\* either candidate may have no route at all
PathChoices ==
    {[l \in Candidates |-> IF l = <<3, 10>> THEN pl ELSE pr] :
        pl \in {<< >>, PathFromLeft}, pr \in {<< >>, PathFromRight}}
\* the opponent's side as a match shows it on the decision turn
DecisionBoards ==
    {[enemy |-> {}, paths |-> OpenPaths],
     [enemy |-> {<<6, 16>>}, paths |-> OpenPaths]}

\* cells of the front row where the action phase may destroy a structure
LossSites == {<<0, 13>>, <<3, 13>>}
Losses == {{}} \cup {{l} : l \in LossSites}

BreachEvents == [location : BreachLocations, owner : BreachOwners]
Frames == UNION {[1..n -> BreachEvents] : n \in 0..MaxBreaches}

\* best_location before the decision turn (the attribute does not exist)
NoLocation == << >>

VARIABLES
    turn_state,            \* the game state as received at the last on_turn
    game_state,            \* the planned game state when that turn was submitted
    calls,                 \* attempt_spawn / submit_turn calls of the last on_turn
    damages,               \* the list "damages" if the last turn was the decision turn
    scored_on_locations,   \* self.scored_on_locations
    funnel_left,           \* self.funnel_left
    best_location,         \* self.best_location
    scored_on_owners,      \* history: owner field of the event behind each log entry
    opponent_breaches      \* history: locations of the opponent's breaches delivered

vars == <<turn_state, game_state, calls, damages, scored_on_locations,
          funnel_left, best_location, scored_on_owners, opponent_breaches>>

NoGame == [turn_number |-> -1, cores |-> 0, bits |-> 0, units |-> << >>,
           mobile |-> {}, enemy |-> {}, paths |-> NoPaths]

\* on_game_start has run, no turn yet
Init ==
    /\ turn_state = NoGame
    /\ game_state = NoGame
    /\ calls = << >>
    /\ damages = << >>
    /\ scored_on_locations = << >>
    /\ funnel_left = TRUE
    /\ best_location = NoLocation
    /\ scored_on_owners = << >>
    /\ opponent_breaches = << >>

\* the board without the structures destroyed in the action phase
without(units, lost) ==
    IF lost \cap DOMAIN units = {}
       THEN units
       ELSE [l \in DOMAIN units \ lost |-> units[l]]

\* the turn records that can follow the last submitted turn: the board is
\* the one planned last turn less the structures lost; the opponent's DESTRUCTORs and the routes are
\* those of the decision turn, the only turn that reads them
NextTurnStates ==
    LET n == game_state.turn_number + 1
    IN  {[turn_number |-> n, cores |-> c, bits |-> b,
          units  |-> without(game_state.units, lost),
          mobile |-> {}, enemy |-> d.enemy, paths |-> d.paths] :
            c \in CoresChoices, b \in BitsChoices, lost \in Losses,
            d \in IF n = DecisionTurn
                     THEN DecisionBoards
                     ELSE {[enemy |-> {}, paths |-> NoPaths]}}

submit_turn(cs, gs) ==
    Append(cs, [fn |-> "submit_turn", unit |-> "", locations |-> << >>,
                num |-> 0, spawned |-> 0, built |-> {},
                cores |-> gs.cores, bits |-> gs.bits])

\* on_turn: funnel_strategy, then submit_turn.  rnd is what random.randint
\* returns in the stalling loop; the head of funnel_strategy does not read it.
OnTurn ==
    /\ game_state.turn_number < MaxTurn
    /\ \E ts \in NextTurnStates :
       \E self \in {[scored_on_locations |-> scored_on_locations,
                     funnel_left |-> funnel_left,
                     best_location |-> best_location]} :
       \E c2 \in {basic_defenses(self, ts)} :
       \E rnd \in IF ts.turn_number < DecisionTurn
                     THEN [1..quarter_of(c2.gs) -> 0..1] ELSE {<< >>} :
       \E r \in {funnel_branch(self, c2, rnd)} :
          /\ turn_state' = ts
          /\ game_state' = r.ctx.gs
          /\ calls' = submit_turn(r.ctx.calls, r.ctx.gs)
          /\ damages' = IF ts.turn_number = DecisionTurn
                           THEN damages_of(c2.gs, ping_spawn_location_options)
                           ELSE << >>
          /\ funnel_left' = r.self.funnel_left
          /\ best_location' = r.self.best_location
          /\ scored_on_locations' = r.self.scored_on_locations
    /\ UNCHANGED <<scored_on_owners, opponent_breaches>>

\* on_action_frame: one action frame of the turn that was submitted
OnActionFrame ==
    /\ game_state.turn_number >= 0
    /\ \E breaches \in Frames :
       \E log \in {record_breaches([locations |-> scored_on_locations,
                                    owners |-> scored_on_owners], breaches)} :
       \E theirs \in {SelectSeq(breaches, LAMBDA b : b.owner = 2)} :
       \E self \in {on_action_frame(
                       [scored_on_locations |-> scored_on_locations,
                        funnel_left |-> funnel_left,
                        best_location |-> best_location], log)} :
          /\ Len(log.locations) <= MaxLog
          /\ scored_on_locations' = self.scored_on_locations
          /\ funnel_left' = self.funnel_left
          /\ best_location' = self.best_location
          /\ scored_on_owners' = log.owners
          /\ opponent_breaches' = opponent_breaches \o
                                    [i \in 1..Len(theirs) |-> theirs[i].location]
    /\ UNCHANGED <<turn_state, game_state, calls, damages>>

Next == OnTurn \/ OnActionFrame

Spec == Init /\ [][Next]_vars

\* ------------------------------------------------------------------------
\* The Risk Estimator on its own: least_damage_spawn_location applied to a
\* decision-turn board drawn from every layout of EnemySites and every
\* combination of open and missing routes.
\* ------------------------------------------------------------------------
InitRisk ==
    /\ turn_state \in
         {[turn_number |-> DecisionTurn, cores |-> 0, bits |-> 0,
           units |-> << >>,
           mobile |-> {}, enemy |-> e, paths |-> p] :
             e \in SUBSET EnemySites, p \in PathChoices}
    /\ game_state = NoGame
    /\ calls = << >>
    /\ damages = << >>
    /\ scored_on_locations = << >>
    /\ funnel_left = TRUE
    /\ best_location = NoLocation
    /\ scored_on_owners = << >>
    /\ opponent_breaches = << >>

Estimate ==
    /\ best_location = NoLocation
    /\ best_location' = least_damage_spawn_location(turn_state,
                                                    ping_spawn_location_options)
    /\ damages' = damages_of(turn_state, ping_spawn_location_options)
    /\ UNCHANGED <<turn_state, game_state, calls, scored_on_locations,
                   funnel_left, scored_on_owners, opponent_breaches>>

NextRisk == Estimate

SpecRisk == InitRisk /\ [][NextRisk]_vars

\* ------------------------------------------------------------------------
\* Properties
\* ------------------------------------------------------------------------
\* ------------------------------------------------------------------------
\* The planner on its own: one on_turn applied to an empty board of the
\* turn before, on and after the decision turn, with a breach log drawn from
\* every cell of the defender's two scoring edges.
\* ------------------------------------------------------------------------
\* the longest breach log drawn
PlanLog == 1

EdgeCells ==
    {cell \in (0..(ARENA_SIZE - 1)) \X (0..(HALF_ARENA - 1)) : on_own_edge(cell)}

EdgeLogs == UNION {[1..k -> EdgeCells] : k \in 0..PlanLog}

PlanTurns ==
    {[turn_number |-> n, cores |-> c, bits |-> b, units |-> << >>,
      mobile |-> {}, enemy |-> {},
      paths |-> IF n = DecisionTurn THEN OpenPaths ELSE NoPaths] :
        n \in (DecisionTurn - 1)..(DecisionTurn + 1),
        c \in CoresChoices, b \in BitsChoices}

InitPlan ==
    /\ turn_state \in PlanTurns
    /\ scored_on_locations \in EdgeLogs
    /\ scored_on_owners = [i \in 1..Len(scored_on_locations) |-> 2]
    /\ opponent_breaches = scored_on_locations
    /\ game_state = NoGame
    /\ calls = << >>
    /\ damages = << >>
    /\ IF turn_state.turn_number > DecisionTurn
          THEN funnel_left = FALSE /\ best_location \in Candidates
          ELSE funnel_left = TRUE /\ best_location = NoLocation

\* on_turn for the turn record drawn
Plan ==
    /\ game_state = NoGame
    /\ \E self \in {[scored_on_locations |-> scored_on_locations,
                     funnel_left |-> funnel_left,
                     best_location |-> best_location]} :
       \E c2 \in {basic_defenses(self, turn_state)} :
       \E rnd \in IF turn_state.turn_number < DecisionTurn
                     THEN [1..quarter_of(c2.gs) -> 0..1] ELSE {<< >>} :
       \E r \in {funnel_branch(self, c2, rnd)} :
          /\ game_state' = r.ctx.gs
          /\ calls' = submit_turn(r.ctx.calls, r.ctx.gs)
          /\ damages' = IF turn_state.turn_number = DecisionTurn
                           THEN damages_of(c2.gs, ping_spawn_location_options)
                           ELSE << >>
          /\ funnel_left' = r.self.funnel_left
          /\ best_location' = r.self.best_location
          /\ scored_on_locations' = r.self.scored_on_locations
    /\ UNCHANGED <<turn_state, scored_on_owners, opponent_breaches>>

NextPlan == Plan

SpecPlan == InitPlan /\ [][NextPlan]_vars

\* the calls of the last turn made by one builder, in order
CallsOf(cs, fn) == SelectSeq(cs, LAMBDA c : c.fn = fn)

\* the funnel pattern attempted in a turn: builder, unit type and cells
FunnelPattern(cs) ==
    LET f == SelectSeq(cs, LAMBDA c : c.fn \in {"build_left_funnel",
                                                "build_right_funnel"})
    IN  [i \in 1..Len(f) |-> <<f[i].fn, f[i].unit, f[i].locations>>]

\* C1 (as claimed): on the decision turn the commitment is the side of the
\* selected candidate: funnel_left with the left funnel built when [3, 10]
\* is selected, not funnel_left with the right funnel built when [24, 10] is.
C1_CommitFollowsSelection ==
    game_state.turn_number = DecisionTurn =>
        /\ best_location = <<3, 10>> =>
              /\ funnel_left
              /\ FunnelPattern(calls) =
                   << <<"build_left_funnel", ENCRYPTOR, left_funnel_locations>> >>
        /\ best_location = <<24, 10>> =>
              /\ ~funnel_left
              /\ FunnelPattern(calls) =
                   << <<"build_right_funnel", ENCRYPTOR, right_funnel_locations>> >>

\* C2: once the decision turn has been played, no step (a later turn or an
\* action frame with any breaches) changes funnel_left or best_location, and
\* every later turn attempts the funnel pattern the turn before it attempted,
\* hence the one of the decision turn.
C2_CommitmentNeverChanges ==
    [][game_state.turn_number >= DecisionTurn =>
          /\ funnel_left' = funnel_left
          /\ best_location' = best_location
          /\ FunnelPattern(calls') = FunnelPattern(calls)]_vars

C2_Witness ==
    /\ game_state.turn_number > DecisionTurn
    /\ Len(scored_on_locations) > 0
    /\ best_location \in Candidates
    /\ Len(FunnelPattern(calls)) = 1

\* the bits in the planned state when funnel_strategy reaches the swarm
BitsAtSwarm == CallsOf(calls, "build_defenses3")[1].bits

\* C3: on every turn after the decision turn a PING spawn attempt is issued
\* exactly when the bits read at that point are at least 10, and it is the
\* one attempt at best_location with requested count 1000.
C3_SwarmIffTenBits ==
    game_state.turn_number > DecisionTurn =>
        LET pings == SelectSeq(calls, LAMBDA c : c.unit = PING)
        IN  /\ Len(pings) = IF BitsAtSwarm >= 10 THEN 1 ELSE 0
            /\ \A i \in 1..Len(pings) :
                  /\ pings[i].locations = <<best_location>>
                  /\ pings[i].num = 1000

C3_Witness ==
    /\ game_state.turn_number > DecisionTurn
    /\ BitsAtSwarm = 10
    /\ \E i \in 1..Len(calls) :
          /\ calls[i].unit = PING
          /\ calls[i].num = 1000
          /\ calls[i].spawned = 10

\* C4: no step shortens the breach log or rewrites an entry of it; every
\* entry was appended for an event whose owner field is the opponent's (2),
\* and the log has one entry per opponent breach delivered, so the events
\* of own units (owner field 1) added none.
C4_LogGrowsWithOpponentBreachesOnly ==
    [][/\ Len(scored_on_locations') >= Len(scored_on_locations)
       /\ SubSeq(scored_on_locations', 1, Len(scored_on_locations))
            = scored_on_locations
       /\ \A i \in 1..Len(scored_on_owners') : scored_on_owners'[i] = 2
       /\ Len(scored_on_locations') = Len(scored_on_owners')
       /\ Len(scored_on_locations') = Len(opponent_breaches')]_vars

C4_Witness ==
    /\ Len(scored_on_locations) = 2
    /\ scored_on_owners = <<2, 2>>
    /\ game_state.turn_number >= 1

\* C5 (as claimed): the log holds, for each breach of the opponent at (x, y),
\* one entry (x, y+3).
C5_LogHoldsShiftedLocation ==
    scored_on_locations =
        [i \in 1..Len(opponent_breaches) |->
            <<opponent_breaches[i][1], opponent_breaches[i][2] + 3>>]

\* C5 (amended): the log holds, for each breach of the opponent at (x, y),
\* one entry, the breach location (x, y) as delivered; the offset is not
\* applied when the entry is logged.
C5_LogHoldsBreachLocation ==
    scored_on_locations = opponent_breaches

C5_Witness ==
    /\ scored_on_locations = << <<10, 2>> >>
    /\ opponent_breaches = << <<10, 2>> >>

C7_EmptyPathNeverSelected ==
    best_location # NoLocation =>
        \A c \in Candidates :
            (/\ find_path_to_edge(turn_state, c) = << >>
             /\ \E o \in Candidates : find_path_to_edge(turn_state, o) # << >>)
                => best_location # c

\* C8: the location returned is a candidate whose estimate is the least of
\* the estimates, and the earliest such candidate in input order.
C8_LeastDamageEarliest ==
    best_location # NoLocation =>
        \E i \in 1..Len(ping_spawn_location_options) :
            /\ best_location = ping_spawn_location_options[i]
            /\ \A j \in 1..Len(damages) : damages[i] <= damages[j]
            /\ \A j \in 1..(i - 1) : damages[j] > damages[i]

\* a tie above zero, settled for the first candidate
C8_Witness ==
    /\ damages = <<144, 144>>
    /\ best_location = <<3, 10>>

\* the decision-turn board with one more DESTRUCTOR of the opponent at e
WithDefender(e) == [turn_state EXCEPT !.enemy = @ \cup {e}]

\* C9: the estimate of every candidate is at least 0, and with one more
\* defender on the board the estimate of the same route is not lower.
C9_RiskNonNegativeMonotone ==
    best_location # NoLocation =>
        \A i \in 1..Len(ping_spawn_location_options) :
            /\ damages[i] >= 0
            /\ \A e \in EnemySites :
                  path_damage(WithDefender(e),
                              find_path_to_edge(turn_state,
                                  ping_spawn_location_options[i]))
                      >= damages[i]

\* a board with defenders on the left route where one more raises its estimate
C9_Witness ==
    /\ best_location # NoLocation
    /\ damages[1] > 0
    /\ \E e \in EnemySites \ turn_state.enemy :
          path_damage(WithDefender(e), find_path_to_edge(turn_state, <<3, 10>>))
              > damages[1]

\* the cells of the base pass: row 13, every column but the gaps
BaseRowCells ==
    {<<x, 13>> : x \in (0..27) \ {3, 6, 10, 12, 15, 17, 21, 24}}

\* C10: when every cell of the base row held a stationary unit as the turn
\* began, the base pass of that turn placed nothing and left the cores and
\* the bits as they were.
C10_BasePassIdempotent ==
    (/\ game_state.turn_number >= 0
     /\ \A cell \in BaseRowCells : cell \in DOMAIN turn_state.units)
        => /\ calls[1].fn = "build_defenses"
           /\ calls[1].spawned = 0
           /\ calls[1].built = {}
           /\ calls[1].cores = turn_state.cores
           /\ calls[1].bits = turn_state.bits

\* a second pass over the full row with cores to spend
C10_Witness ==
    /\ \A cell \in BaseRowCells : cell \in DOMAIN turn_state.units
    /\ turn_state.cores >= DestructorCost
    /\ calls[1].fn = "build_defenses"
    /\ calls[1].spawned = 0

\* the step of the turn a call belongs to: base pass, reinforcement, the
\* stall-or-commit branch, the additional rows, the swarm, the submission
StepOf(fn) ==
    CASE fn = "build_defenses" -> 1
      [] fn = "build_reactive_defense" -> 2
      [] fn \in {"stall_with_scramblers", "build_left_funnel",
                 "build_right_funnel"} -> 3
      [] fn = "build_additional_defenses" -> 4
      [] fn = "build_better_tunnel" -> 5
      [] fn = "build_defenses3" -> 6
      [] fn = "swarm" -> 7
      [] fn = "submit_turn" -> 8

HowMany(cs, fn) == Len(CallsOf(cs, fn))

\* C11: the calls of every turn are in the order base pass, reinforcement,
\* stall-or-commit branch, additional rows, swarm; the base pass is made
\* once and first; submit_turn is made once and last; the branch and, after
\* the decision turn, each additional row are made whatever the earlier
\* calls placed.
C11_FixedOrderSubmitLast ==
    game_state.turn_number >= 0 =>
        /\ \A i \in 1..(Len(calls) - 1) :
              StepOf(calls[i].fn) <= StepOf(calls[i + 1].fn)
        /\ calls[1].fn = "build_defenses"
        /\ HowMany(calls, "build_defenses") = 1
        /\ calls[Len(calls)].fn = "submit_turn"
        /\ HowMany(calls, "submit_turn") = 1
        /\ \E i \in 1..Len(calls) : StepOf(calls[i].fn) = 3
        /\ game_state.turn_number > DecisionTurn =>
              /\ HowMany(calls, "build_additional_defenses") = 1
              /\ HowMany(calls, "build_better_tunnel") = 1
              /\ HowMany(calls, "build_defenses3") = 1

\* a turn after the decision turn whose base pass and reinforcement placed
\* nothing of what they attempted, with every later step made and a swarm
C11_Witness ==
    /\ game_state.turn_number > DecisionTurn
    /\ calls[1].spawned = 0
    /\ calls[1].built = {}
    /\ HowMany(calls, "build_reactive_defense") >= 1
    /\ \A i \in 1..Len(calls) :
          calls[i].fn = "build_reactive_defense" => calls[i].spawned = 0
    /\ HowMany(calls, "build_defenses3") = 1
    /\ HowMany(calls, "swarm") = 1
    /\ calls[Len(calls)].fn = "submit_turn"

\* C12: a step that is not a turn (the turn number stays) is an action
\* frame: it issues no call, leaves the planned state and the turn record
\* alone, and leaves funnel_left and best_location as they were.
C12_ActionFrameOnlyWritesLog ==
    [][game_state'.turn_number = game_state.turn_number =>
          /\ calls' = calls
          /\ game_state' = game_state
          /\ turn_state' = turn_state
          /\ funnel_left' = funnel_left
          /\ best_location' = best_location]_vars

\* two breaches logged by action frames after the commitment was made, not
\* yet seen by any turn
C12_Witness ==
    /\ game_state.turn_number = DecisionTurn
    /\ best_location # NoLocation
    /\ Len(scored_on_locations)
          >= HowMany(calls, "build_reactive_defense") + 2

StallCalls == CallsOf(calls, "stall_with_scramblers")

\* C13: on every turn before the decision turn no funnel is built and no
\* PING is spawned, and the stalling loop makes exactly B \div 4 + 1
\* SCRAMBLER attempts, B being the bits the turn began with (no call before
\* the loop spends bits), each for one unit at [9, 4] or at [18, 4].
C13_StallBeforeDecision ==
    game_state.turn_number \in 0..(DecisionTurn - 1) =>
        /\ FunnelPattern(calls) = << >>
        /\ \A i \in 1..Len(calls) : calls[i].unit # PING
        /\ calls[1 + HowMany(calls, "build_reactive_defense")].bits
              = turn_state.bits
        /\ Len(StallCalls) = turn_state.bits \div 4 + 1
        /\ \A i \in 1..Len(StallCalls) :
              /\ StallCalls[i].unit = SCRAMBLER
              /\ StallCalls[i].num = 1
              /\ StallCalls[i].locations \in {<< <<9, 4>> >>, << <<18, 4>> >>}

\* a stalling turn with 9 bits: three attempts, both locations used
C13_Witness ==
    /\ game_state.turn_number \in 0..(DecisionTurn - 1)
    /\ turn_state.bits = 9
    /\ Len(StallCalls) = 3
    /\ \E i, j \in 1..Len(StallCalls) :
          /\ StallCalls[i].locations = << <<9, 4>> >>
          /\ StallCalls[j].locations = << <<18, 4>> >>

\* the additional rows of a turn, each laid once
AdditionalRowsLaid ==
    /\ HowMany(calls, "build_additional_defenses") = 1
    /\ HowMany(calls, "build_better_tunnel") = 1
    /\ HowMany(calls, "build_defenses3") = 1

\* no additional row laid, no PING spawn attempted
NoStepD ==
    /\ HowMany(calls, "build_additional_defenses") = 0
    /\ HowMany(calls, "build_better_tunnel") = 0
    /\ HowMany(calls, "build_defenses3") = 0
    /\ HowMany(calls, "swarm") = 0

\* the bits in the planned state once the funnel of the turn is built
BitsAfterFunnel ==
    SelectSeq(calls, LAMBDA c : c.fn \in {"build_left_funnel",
                                          "build_right_funnel"})[1].bits

\* C14 (as claimed): on every turn from the decision turn on the additional
\* rows are laid and, with at least 10 bits, the swarm is issued.
C14_StepDFromDecisionTurn ==
    game_state.turn_number >= DecisionTurn =>
        /\ AdditionalRowsLaid
        /\ BitsAfterFunnel >= SwarmThreshold => HowMany(calls, "swarm") = 1

\* C14 (amended): on every turn after the decision turn the additional rows
\* are laid and, with at least 10 bits, the swarm is issued at the committed
\* location; on the decision turn itself neither is done.
C14_StepDAfterDecisionTurn ==
    /\ game_state.turn_number > DecisionTurn =>
          /\ AdditionalRowsLaid
          /\ BitsAfterFunnel >= SwarmThreshold =>
                /\ HowMany(calls, "swarm") = 1
                /\ CallsOf(calls, "swarm")[1].locations = <<best_location>>
    /\ game_state.turn_number = DecisionTurn => NoStepD

\* the decision turn played with 10 bits: committed, nothing of step (d)
C14_Witness ==
    /\ game_state.turn_number = DecisionTurn
    /\ best_location \in Candidates
    /\ BitsAfterFunnel = 10
    /\ NoStepD

\* the cells a call targets
CellsOf(c) == {c.locations[k] : k \in 1..Len(c.locations)}

\* the logged breach a reinforcement cell was computed from
BreachOf(cell) == <<cell[1], cell[2] - ReactiveOffset>>

\* C15 (as claimed): every cell targeted by a stationary placement attempt
\* of a turn is inside the diamond of the board, the reinforcement cell of
\* a breach on the defender's scoring edges included.
C15_PlacementsInsideRegion ==
    game_state.turn_number >= 0 =>
        \A i \in 1..Len(calls) :
            is_stationary(calls[i].unit) =>
                \A cell \in CellsOf(calls[i]) :
                    (calls[i].fn = "build_reactive_defense"
                        => on_own_edge(BreachOf(cell)))
                    => in_arena_bounds(cell)

\* C16 (as claimed): within one turn no cell is targeted by a DESTRUCTOR
\* placement attempt and by an ENCRYPTOR placement attempt.
C16_NoCellOfTwoKinds ==
    game_state.turn_number >= 0 =>
        \A i, j \in 1..Len(calls) :
            (calls[i].unit = DESTRUCTOR /\ calls[j].unit = ENCRYPTOR)
                => CellsOf(calls[i]) \cap CellsOf(calls[j]) = {}

\* C17: no stationary placement attempt of a turn targets [3, 10] or
\* [24, 10], whatever cells of the defender's scoring edges are in the
\* breach log.
C17_SpawnCellsNeverTargeted ==
    /\ \A k \in 1..Len(left_funnel_locations) :
          left_funnel_locations[k] \notin Candidates
    /\ game_state.turn_number >= 0 =>
          \A i \in 1..Len(calls) :
              is_stationary(calls[i].unit) =>
                  CellsOf(calls[i]) \cap Candidates = {}

\* a turn after the commitment to [3, 10] with a breach at [3, 10] in the
\* log: the reinforcement goes to [3, 13] and the swarm spawns at [3, 10]
C17_Witness ==
    /\ game_state.turn_number > DecisionTurn
    /\ best_location = <<3, 10>>
    /\ <<3, 10>> \in {scored_on_locations[k] :
                        k \in 1..Len(scored_on_locations)}
    /\ \E i \in 1..Len(calls) :
          /\ calls[i].fn = "build_reactive_defense"
          /\ calls[i].locations = << <<3, 13>> >>
    /\ \E i \in 1..Len(calls) :
          /\ calls[i].fn = "swarm"
          /\ calls[i].spawned = 10

====
